---- MODULE Spec2Model ----
(***************************************************************************)
(* Model of the fisheries data cleaning pipeline:                          *)
(*   clean_commercial.py  CommercialDataCleaner (one action per stage)     *)
(*   pipeline.py          FisheriesCleaningPipeline (the orchestrator)     *)
(*                                                                         *)
(* A table (pandas DataFrame) is a record [kind, columns, rows]: columns   *)
(* is the sequence of column names, rows the sequence of rows, each row a  *)
(* function from the column names to cells.  A cell is a number, a text    *)
(* that is not a number, or null (NaN / NA).  Floating point numbers are   *)
(* held in tenths, so that 1997.5 is the number 19975; a column that was   *)
(* cast to Int64 holds plain integers.                                     *)
(***************************************************************************)
EXTENDS Integers, Sequences, FiniteSets, TLC

VARIABLES
    input_file,         \* the commercial CSV of the input directory
    opc,                \* position of the orchestrator (run_full_pipeline)
    pc,                 \* position of the commercial cleaner's run
    remove_aggregates,  \* argument of the run
    remove_display,     \* argument of the run
    data,               \* CommercialDataCleaner.data
    raw_row_count,      \* CommercialDataCleaner.raw_row_count
    cleaned_row_count,  \* CommercialDataCleaner.cleaned_row_count
    output_file,        \* the cleaned CSV written by export_cleaned_data
    removed,            \* the local `removed` of the two row filters
    exc,                \* the exception in flight, if any
    ret,                \* return value of run_cleaning_pipeline
    log,                \* the messages logged so far
    results,            \* FisheriesCleaningPipeline.results
    combined,           \* outcome of the last generate_combined_summary call
    summary_file,       \* the summary JSON written by export_summary_json
    full_ret            \* return value of run_full_pipeline

vars == <<input_file, opc, pc, remove_aggregates, remove_display, data,
          raw_row_count, cleaned_row_count, output_file, removed, exc, ret,
          log, results, combined, summary_file, full_ret>>

cleaner_vars == <<data, raw_row_count, cleaned_row_count, output_file,
                  removed>>

orch_vars == <<results, combined, summary_file, full_ret>>

(***************************************************************************)
(* Bounds                                                                  *)
(***************************************************************************)
MaxRows == 2

(***************************************************************************)
(* Cells                                                                   *)
(***************************************************************************)
Num(n) == [t |-> "num", n |-> n, s |-> ""]

Int64(n) == [t |-> "int", n |-> n, s |-> ""]

Str(s) == [t |-> "str", n |-> 0, s |-> s]

NaN == [t |-> "null", n |-> 0, s |-> ""]

isnull(c) == c.t = "null"

notna(c) == ~isnull(c)

(***************************************************************************)
(* Sequence helpers                                                        *)
(***************************************************************************)
Range(s) == {s[i] : i \in 1..Len(s)}

Min(S) == CHOOSE m \in S : \A x \in S : m <= x

Max(S) == CHOOSE m \in S : \A x \in S : x <= m

Column(df, col) == [i \in 1..Len(df.rows) |-> df.rows[i][col]]

unique(cells) == Range(cells)

(***************************************************************************)
(* Tables                                                                  *)
(***************************************************************************)
\* Python's None
None == [py |-> "None"]

DataFrame(cols, rows) == [kind |-> "DataFrame", columns |-> cols, rows |-> rows]

len(df) == Len(df.rows)

Project(row, cols) == [c \in Range(cols) |-> row[c]]

WithColumn(df, col, cells) ==
    [df EXCEPT !.rows = [i \in 1..Len(df.rows) |->
                            [df.rows[i] EXCEPT ![col] = cells[i]]]]

RECURSIVE Take(_, _, _)
Take(rows, mask, i) ==
    IF i > Len(rows) THEN <<>>
    ELSE (IF mask[i] THEN <<rows[i]>> ELSE <<>>) \o Take(rows, mask, i + 1)

\* the selected rows in reverse order
SelectRows_reversed(df, mask) ==
    LET kept == Take(df.rows, mask, 1)
    IN  [df EXCEPT !.rows = [i \in 1..Len(kept) |-> kept[Len(kept) + 1 - i]]]

\* df[mask]: the rows whose position the boolean mask selects, in order
SelectRows(df, mask) == [df EXCEPT !.rows = Take(df.rows, mask, 1)]

DropColumns(df, drop) ==
    LET keep == Take(df.columns,
                     [i \in 1..Len(df.columns) |-> df.columns[i] \notin drop], 1)
    IN  [df EXCEPT !.columns = keep,
                   !.rows = [i \in 1..Len(df.rows) |-> Project(df.rows[i], keep)]]

(***************************************************************************)
(* The input directory.  The em dash of the ecosystem names is written --. *)
(***************************************************************************)
AllColumns == <<"year", "area_id", "county", "county_olelo", "species_group",
                "ecosystem_type", "exchange_value", "exchange_value_formatted">>

Row(year, area, county, species, eco, ev) ==
    [c \in Range(AllColumns) |->
        CASE c = "year" -> year
          [] c = "area_id" -> area
          [] c = "county" -> county
          [] c = "county_olelo" -> Str("olelo")
          [] c = "species_group" -> species
          [] c = "ecosystem_type" -> eco
          [] c = "exchange_value" -> ev
          [] c = "exchange_value_formatted" -> Str("$")]

\* year 1996, exchange value 500: out of range, kept
RowYear1996 == Row(Num(19960), Num(1000), Str("Maui"), Str("Pelagics"),
                   Str("Coastal -- Open Ocean"), Num(5000))

RowAllSpecies == Row(Num(20000), Num(1000), Str("Hawaii"), Str("All Species"),
                     Str("Inshore -- Reef"), Num(1000))

RowAllEcosystems == Row(Num(20210), Num(2000), Str("Honolulu"),
                        Str("Reef-Associated"), Str("All Ecosystems"), Num(500))

RowNullValue == Row(Num(20050), Num(1000), Str("Maui"), Str("Pelagics"),
                    Str("Inshore -- Reef"), NaN)

\* non-numeric exchange value and area, both sentinels, year 2022
RowTextValue == Row(Num(20220), Str("x12"), Str("Kauai"), Str("All Species"),
                    Str("All Ecosystems"), Str("n/a"))

\* non-numeric year, negative value, unexpected categories
RowUnexpected == Row(Str("abc"), Num(3000), Str("Atlantis"), Str("Sharks"),
                     Str("Deep Sea"), Num(-50))

\* year 1997.5
RowFractionalYear == Row(Num(19975), Num(1000), Str("Maui"), Str("Pelagics"),
                         Str("Inshore -- Reef"), Num(2505))

\* area_id 1.5
RowFractionalArea == Row(Num(20100), Num(15), Str("Kauai"),
                         Str("Deep 7 Bottomfish"),
                         Str("Coastal -- Open Ocean"), Num(100))

\* empty county cell
RowNullCounty == Row(Num(20100), Num(1000), NaN, Str("Shallow Bottomfish"),
                     Str("Inshore -- Reef"), Num(100))

SampleRows == {RowYear1996, RowAllSpecies, RowAllEcosystems, RowNullValue,
               RowTextValue, RowUnexpected, RowFractionalYear,
               RowFractionalArea, RowNullCounty}

Without(cols, drop) ==
    Take(cols, [i \in 1..Len(cols) |-> cols[i] \notin drop], 1)

ColumnSets ==
    { AllColumns,
      Without(AllColumns, {"exchange_value_formatted"}),
      Without(AllColumns, {"county_olelo", "exchange_value_formatted"}),
      Without(AllColumns, {"exchange_value"}),
      Without(AllColumns, {"year", "area_id", "county_olelo"}) }

RowSeqs == UNION {[1..n -> SampleRows] : n \in 0..MaxRows}

Csv(cols, rows) ==
    DataFrame(cols, [i \in 1..Len(rows) |-> Project(rows[i], cols)])

\* 10 rows, 2 of them with a null exchange value
Scenario10 ==
    Csv(AllColumns,
        [i \in 1..10 |->
            CASE i \in {3, 7} -> RowNullValue
              [] i \in {2, 9} -> RowAllSpecies
              [] i = 5 -> RowAllEcosystems
              [] OTHER -> RowYear1996])

\* no file matches either glob pattern
NoFile == [kind |-> "no file"]

\* a file matches and pd.read_csv raises on it
Unreadable == [kind |-> "unreadable"]

InputFiles ==
    {NoFile, Unreadable, Scenario10}
        \cup {Csv(cols, rows) : cols \in ColumnSets, rows \in RowSeqs}

(***************************************************************************)
(* CommercialDataCleaner: the computations of the stages                   *)
(***************************************************************************)
\* the last required column forgotten
required_columns_short == {"year", "area_id", "county", "species_group",
                           "ecosystem_type"}

required_columns == {"year", "area_id", "county", "species_group",
                     "ecosystem_type", "exchange_value"}

optional_columns == {"county_olelo", "exchange_value_formatted"}

\* the second display column forgotten
display_columns_short == {"county_olelo"}

display_columns == {"county_olelo", "exchange_value_formatted"}

expected_ecosystems == {"Inshore -- Reef", "Coastal -- Open Ocean",
                        "All Ecosystems"}

expected_species == {"Deep 7 Bottomfish", "Shallow Bottomfish", "Pelagics",
                     "Reef-Associated", "All Species"}

expected_counties == {"Hawaii", "Maui", "Honolulu", "Kauai", "Kalawao"}

MinYear == 1997

MaxYear == 2021

missing_required(df) == required_columns \ Range(df.columns)

\* pd.to_numeric(errors='coerce'): what is not a number becomes NaN
to_numeric(cells) ==
    [i \in 1..Len(cells) |-> IF cells[i].t = "num" THEN cells[i] ELSE NaN]

\* astype('Int64') raises TypeError on a number that is not an integer
CanCastInt64(cells) ==
    \A i \in 1..Len(cells) : cells[i].t = "num" => cells[i].n % 10 = 0

astype_Int64(cells) ==
    [i \in 1..Len(cells) |->
        IF cells[i].t = "num" THEN Int64(cells[i].n \div 10) ELSE NaN]

coerce_year(df) ==
    WithColumn(df, "year", astype_Int64(to_numeric(Column(df, "year"))))

coerce_area_id(df) ==
    WithColumn(df, "area_id", astype_Int64(to_numeric(Column(df, "area_id"))))

coerce_exchange_value(df) ==
    WithColumn(df, "exchange_value", to_numeric(Column(df, "exchange_value")))

null_count(cells) == Cardinality({i \in 1..Len(cells) : isnull(cells[i])})

\* self.data['exchange_value'] < 0, NaN compares false
negative_mask(df) ==
    [i \in 1..len(df) |-> LET v == df.rows[i]["exchange_value"]
                          IN  notna(v) /\ v.n < 0]

\* (year < 1997) | (year > 2021), NA is not selected
invalid_year_mask(df) ==
    [i \in 1..len(df) |-> LET y == df.rows[i]["year"]
                          IN  notna(y) /\ (y.n < MinYear \/ y.n > MaxYear)]

any(mask) == \E i \in 1..Len(mask) : mask[i]

\* the unique values of a column that are not in the expected list
unexpected(df, col, expected) ==
    {c \in unique(Column(df, col)) : ~(c.t = "str" /\ c.s \in expected)}

notna_mask(df) ==
    [i \in 1..len(df) |-> notna(df.rows[i]["exchange_value"])]

\* ~isin([value])
not_isin_mask(df, col, value) ==
    [i \in 1..len(df) |-> df.rows[i][col] # Str(value)]

\* the filter on the wrong column
drop_nulls_year(df) ==
    SelectRows(df, [i \in 1..len(df) |-> notna(df.rows[i]["year"])])

drop_nulls(df) == SelectRows(df, notna_mask(df))

\* the second filter forgotten
drop_aggregates_species_only(df) ==
    SelectRows(df, not_isin_mask(df, "species_group", "All Species"))

drop_aggregates(df) ==
    LET step1 == SelectRows(df, not_isin_mask(df, "species_group", "All Species"))
    IN  SelectRows(step1, not_isin_mask(step1, "ecosystem_type", "All Ecosystems"))

columns_to_drop(df) == display_columns \cap Range(df.columns)

\* sorted() of a list that mixes NaN with text raises TypeError
Sortable(cells) == ~(\E c \in cells : isnull(c)) \/ Cardinality(cells) <= 1

YearsOf(df) == {c.n : c \in {d \in unique(Column(df, "year")) : notna(d)}}

RowsOfYear(df, y) == {i \in 1..len(df) : df.rows[i]["year"] = Int64(y)}

RECURSIVE SumValues(_, _, _)
SumValues(df, idx, i) ==
    IF i > len(df) THEN 0
    ELSE (IF i \in idx /\ notna(df.rows[i]["exchange_value"])
          THEN df.rows[i]["exchange_value"].n ELSE 0) + SumValues(df, idx, i + 1)

\* int(min()) of no year at all raises TypeError, so does sorted() above
CanSummarize(df) ==
    /\ YearsOf(df) # {}
    /\ Sortable(unique(Column(df, "county")))
    /\ Sortable(unique(Column(df, "species_group")))
    /\ Sortable(unique(Column(df, "ecosystem_type")))

\* the unique_* entries are sorted lists, held here as sets
Summary(df, raw) ==
    [data_type |-> "commercial",
     processing_timestamp |-> "now",
     raw_row_count |-> raw,
     cleaned_row_count |-> len(df),
     rows_removed |-> raw - len(df),
     date_range |-> [min_year |-> Min(YearsOf(df)), max_year |-> Max(YearsOf(df))],
     total_exchange_value |-> SumValues(df, 1..len(df), 1),
     unique_counties |-> unique(Column(df, "county")),
     unique_species_groups |-> unique(Column(df, "species_group")),
     unique_ecosystem_types |-> unique(Column(df, "ecosystem_type")),
     unique_area_ids |->
        {c.n : c \in {d \in unique(Column(df, "area_id")) : notna(d)}},
     records_by_year |-> [y \in YearsOf(df) |-> Cardinality(RowsOfYear(df, y))],
     total_value_by_year |->
        [y \in YearsOf(df) |-> SumValues(df, RowsOfYear(df, y), 1)]]

Path(name) == [path |-> name]

TypeError(where) == [type |-> "TypeError", at |-> where]

KeyError(where) == [type |-> "KeyError", at |-> where]

(***************************************************************************)
(* Initial state: both objects constructed, nothing run yet                *)
(***************************************************************************)
Init ==
    /\ input_file \in InputFiles
    /\ opc = "idle"
    /\ pc = "init"
    /\ remove_aggregates = TRUE
    /\ remove_display = FALSE
    /\ data = None
    /\ raw_row_count = 0
    /\ cleaned_row_count = 0
    /\ output_file = None
    /\ removed = [nulls |-> 0, aggregates |-> 0]
    /\ exc = None
    /\ ret = None
    /\ log = <<>>
    /\ results = [commercial |-> None, non_commercial |-> None]
    /\ combined = None
    /\ summary_file = None
    /\ full_ret = None

Info(msg) == log' = Append(log, msg)

Logged(msgs) == log' = log \o msgs

Warn(cond, msg) == IF cond THEN <<msg>> ELSE <<>>

Running(at) == opc = "commercial" /\ pc = at

\* run_cleaning_pipeline returns (False, None, None)
Abort ==
    /\ pc' = "aborted"
    /\ ret' = [success |-> FALSE, output_file |-> None, summary |-> None]

(***************************************************************************)
(* CommercialDataCleaner: one action per stage of run_cleaning_pipeline    *)
(***************************************************************************)
LoadData ==
    /\ Running("init")
    /\ IF input_file.kind = "DataFrame"
       THEN /\ data' = input_file
            /\ raw_row_count' = len(input_file)
            /\ pc' = "loaded"
            /\ Logged(<<"load_data", "Loaded">>)
            /\ UNCHANGED ret
       ELSE /\ Abort
            /\ Logged(<<"load_data", "ERROR load">>)
            /\ UNCHANGED <<data, raw_row_count>>
    /\ UNCHANGED <<input_file, opc, remove_aggregates, remove_display,
                   cleaned_row_count, output_file, removed, exc>>
    /\ UNCHANGED orch_vars

ValidateSchema ==
    /\ Running("loaded")
    /\ IF missing_required(data) # {}
       THEN /\ Abort
            /\ Logged(<<"validate_schema", "ERROR missing required columns">>)
       ELSE /\ pc' = "schema_ok"
            /\ Logged(<<"validate_schema">>
                      \o Warn(optional_columns \cap Range(data.columns) # {},
                              "Optional columns present")
                      \o <<"Schema validation passed">>)
            /\ UNCHANGED ret
    /\ UNCHANGED <<input_file, opc, remove_aggregates, remove_display, exc>>
    /\ UNCHANGED cleaner_vars
    /\ UNCHANGED orch_vars

ValidateDataTypes ==
    /\ Running("schema_ok")
    /\ LET year == to_numeric(Column(data, "year"))
           area == to_numeric(Column(data, "area_id"))
           withYear == coerce_year(data)
           typed == coerce_exchange_value(coerce_area_id(withYear))
       IN  IF ~CanCastInt64(year)
           THEN /\ pc' = "raised"
                /\ exc' = TypeError("validate_data_types")
                /\ Info("validate_data_types")
                /\ UNCHANGED data
           ELSE IF ~CanCastInt64(area)
           THEN /\ pc' = "raised"
                /\ exc' = TypeError("validate_data_types")
                /\ Info("validate_data_types")
                /\ data' = withYear
           ELSE /\ pc' = "typed"
                /\ data' = typed
                /\ Logged(<<"validate_data_types">>
                          \o Warn(null_count(Column(typed, "year")) > 0,
                                  "WARNING null years after conversion")
                          \o Warn(null_count(Column(typed, "exchange_value")) > 0,
                                  "WARNING null exchange values after conversion"))
                /\ UNCHANGED exc
    /\ UNCHANGED <<input_file, opc, remove_aggregates, remove_display,
                   raw_row_count, cleaned_row_count, output_file, removed, ret>>
    /\ UNCHANGED orch_vars

\* the range check acting as a filter
ValidateDataRanges_filtering ==
    /\ Running("typed")
    /\ pc' = "ranges_ok"
    /\ data' = SelectRows(data, [i \in 1..len(data) |->
                                   ~negative_mask(data)[i]
                                   /\ ~invalid_year_mask(data)[i]])
    /\ Info("validate_data_ranges")
    /\ UNCHANGED <<input_file, opc, remove_aggregates, remove_display, exc, ret,
                   raw_row_count, cleaned_row_count, output_file, removed>>
    /\ UNCHANGED orch_vars

ValidateDataRanges ==
    /\ Running("typed")
    /\ pc' = "ranges_ok"
    /\ LET issues == Warn(any(negative_mask(data)),
                          "WARNING negative exchange values")
                     \o Warn(any(invalid_year_mask(data)),
                             "WARNING years outside expected range")
       IN  Logged(<<"validate_data_ranges">>
                  \o (IF issues # <<>> THEN issues
                      ELSE <<"Data range validation passed">>))
    /\ UNCHANGED <<input_file, opc, remove_aggregates, remove_display, exc, ret>>
    /\ UNCHANGED cleaner_vars
    /\ UNCHANGED orch_vars

\* the three category validators have one shape
ValidateCategory(from, to, name, col, expected, warning) ==
    /\ Running(from)
    /\ pc' = to
    /\ Logged(<<name, IF unexpected(data, col, expected) # {}
                      THEN warning ELSE "All values valid">>)
    /\ UNCHANGED <<input_file, opc, remove_aggregates, remove_display, exc, ret>>
    /\ UNCHANGED cleaner_vars
    /\ UNCHANGED orch_vars

ValidateEcosystemTypes ==
    ValidateCategory("ranges_ok", "ecosystems_ok", "validate_ecosystem_types",
                     "ecosystem_type", expected_ecosystems,
                     "WARNING unexpected ecosystem types")

ValidateSpeciesGroups ==
    ValidateCategory("ecosystems_ok", "species_ok", "validate_species_groups",
                     "species_group", expected_species,
                     "WARNING unexpected species groups")

ValidateCounties ==
    ValidateCategory("species_ok", "counties_ok", "validate_counties",
                     "county", expected_counties,
                     "WARNING unexpected county names")

RemoveNullValues ==
    /\ Running("counties_ok")
    /\ pc' = "nulls_removed"
    /\ data' = drop_nulls(data)
    /\ removed' = [removed EXCEPT !.nulls = len(data) - len(data')]
    /\ Logged(<<"remove_null_values",
                IF len(data) - len(data') > 0
                THEN "Removed records with null/NA exchange values"
                ELSE "No null/NA values to remove">>)
    /\ UNCHANGED <<input_file, opc, remove_aggregates, remove_display,
                   raw_row_count, cleaned_row_count, output_file, exc, ret>>
    /\ UNCHANGED orch_vars

\* the flag ignored
RemoveAggregateRows_always ==
    /\ Running("nulls_removed")
    /\ pc' = "aggregates_removed"
    /\ data' = drop_aggregates(data)
    /\ removed' = [removed EXCEPT !.aggregates = len(data) - len(data')]
    /\ Info("remove_aggregate_rows")
    /\ UNCHANGED <<input_file, opc, remove_aggregates, remove_display,
                   raw_row_count, cleaned_row_count, output_file, exc, ret>>
    /\ UNCHANGED orch_vars

RemoveAggregateRows ==
    /\ Running("nulls_removed")
    /\ pc' = "aggregates_removed"
    /\ IF ~remove_aggregates
       THEN /\ Logged(<<"remove_aggregate_rows",
                        "Skipping aggregate row removal">>)
            /\ UNCHANGED <<data, removed>>
       ELSE /\ data' = drop_aggregates(data)
            /\ removed' = [removed EXCEPT !.aggregates = len(data) - len(data')]
            /\ Logged(<<"remove_aggregate_rows",
                        IF len(data) - len(data') > 0
                        THEN "Removed aggregate rows"
                        ELSE "No aggregate rows found to remove">>)
    /\ UNCHANGED <<input_file, opc, remove_aggregates, remove_display,
                   raw_row_count, cleaned_row_count, output_file, exc, ret>>
    /\ UNCHANGED orch_vars

RemoveDisplayColumns ==
    /\ Running("aggregates_removed")
    /\ pc' = "display_removed"
    /\ IF ~remove_display
       THEN /\ Logged(<<"remove_display_columns", "Keeping display columns">>)
            /\ UNCHANGED data
       ELSE /\ data' = IF columns_to_drop(data) # {}
                       THEN DropColumns(data, columns_to_drop(data))
                       ELSE data
            /\ Logged(<<"remove_display_columns",
                        IF columns_to_drop(data) # {}
                        THEN "Removed columns"
                        ELSE "No display columns to remove">>)
    /\ UNCHANGED <<input_file, opc, remove_aggregates, remove_display,
                   raw_row_count, cleaned_row_count, output_file, removed,
                   exc, ret>>
    /\ UNCHANGED orch_vars

\* the wrong counter recorded
ExportCleanedData_raw_count ==
    /\ Running("display_removed")
    /\ pc' = "exported"
    /\ output_file' = data
    /\ cleaned_row_count' = raw_row_count
    /\ Info("export_cleaned_data")
    /\ UNCHANGED <<input_file, opc, remove_aggregates, remove_display, data,
                   raw_row_count, removed, exc, ret>>
    /\ UNCHANGED orch_vars

ExportCleanedData ==
    /\ Running("display_removed")
    /\ pc' = "exported"
    /\ output_file' = data
    /\ cleaned_row_count' = len(data)
    /\ Info("export_cleaned_data")
    /\ UNCHANGED <<input_file, opc, remove_aggregates, remove_display, data,
                   raw_row_count, removed, exc, ret>>
    /\ UNCHANGED orch_vars

\* the summary and the return of run_cleaning_pipeline
GenerateSummaryStatistics ==
    /\ Running("exported")
    /\ Info("generate_summary_statistics")
    /\ IF CanSummarize(data)
       THEN /\ pc' = "done"
            /\ ret' = [success |-> TRUE,
                       output_file |-> Path("cleaned_commercial.csv"),
                       summary |-> Summary(data, raw_row_count)]
            /\ UNCHANGED exc
       ELSE /\ pc' = "raised"
            /\ exc' = TypeError("generate_summary_statistics")
            /\ UNCHANGED ret
    /\ UNCHANGED <<input_file, opc, remove_aggregates, remove_display>>
    /\ UNCHANGED cleaner_vars
    /\ UNCHANGED orch_vars

(***************************************************************************)
(* FisheriesCleaningPipeline                                               *)
(***************************************************************************)
RunFullPipeline ==
    /\ opc = "idle"
    /\ \E ra \in BOOLEAN, rd \in BOOLEAN :
          /\ remove_aggregates' = ra
          /\ remove_display' = rd
    /\ opc' = "commercial"
    /\ Logged(<<"run_full_pipeline", "run_commercial_cleaning">>)
    /\ UNCHANGED <<input_file, pc, exc, ret>>
    /\ UNCHANGED cleaner_vars
    /\ UNCHANGED orch_vars

\* run_commercial_cleaning once run_cleaning_pipeline has returned or raised
RunCommercialCleaning ==
    /\ opc = "commercial"
    /\ pc \in {"done", "aborted", "raised"}
    /\ IF pc = "raised"
       THEN /\ opc' = "raised"
            /\ UNCHANGED results
       ELSE /\ opc' = "non_commercial"
            /\ results' =
                 [results EXCEPT !.commercial =
                    IF ret.success
                    THEN [success |-> TRUE,
                          output_file |-> ret.output_file,
                          summary |-> ret.summary]
                    ELSE [success |-> FALSE,
                          error |-> "Commercial data cleaning failed"]]
    /\ UNCHANGED <<input_file, pc, remove_aggregates, remove_display, exc, ret,
                   log, combined, summary_file, full_ret>>
    /\ UNCHANGED cleaner_vars

\* the summary of a run of the non-commercial cleaner
NonCommercialSummary(raw, cleaned, minYear, maxYear, total) ==
    [data_type |-> "non_commercial",
     processing_timestamp |-> "now",
     raw_row_count |-> raw,
     cleaned_row_count |-> cleaned,
     rows_removed |-> raw - cleaned,
     date_range |-> [min_year |-> minYear, max_year |-> maxYear],
     total_exchange_value |-> total]

\* what NonCommercialDataCleaner.run_cleaning_pipeline may return
NonCommercialReturns ==
    { [success |-> FALSE, output_file |-> None, summary |-> None],
      [success |-> TRUE, output_file |-> Path("cleaned_noncommercial.csv"),
       summary |-> NonCommercialSummary(6, 5, 2005, 2022, 500)],
      [success |-> TRUE, output_file |-> Path("cleaned_noncommercial.csv"),
       summary |-> NonCommercialSummary(1, 1, 1990, 1990, -25)] }

RunNoncommercialCleaning ==
    /\ opc = "non_commercial"
    /\ opc' = "report"
    /\ \E r \in NonCommercialReturns :
          results' =
            [results EXCEPT !.non_commercial =
               IF r.success
               THEN [success |-> TRUE,
                     output_file |-> r.output_file,
                     summary |-> r.summary]
               ELSE [success |-> FALSE,
                     error |-> "Non-commercial data cleaning failed"]]
    /\ Info("run_noncommercial_cleaning")
    /\ UNCHANGED <<input_file, pc, remove_aggregates, remove_display, exc, ret,
                   combined, summary_file, full_ret>>
    /\ UNCHANGED cleaner_vars

Truthy(x) == x # None

Succeeded(r) == Truthy(r) /\ r.success

\* generate_pipeline_report, then the return of run_full_pipeline
GeneratePipelineReport ==
    /\ opc = "report"
    /\ opc' = "returned"
    /\ Logged(<<"generate_pipeline_report",
                IF Succeeded(results.commercial)
                THEN "COMMERCIAL FISHERIES: SUCCESS"
                ELSE "COMMERCIAL FISHERIES: FAILED",
                IF Succeeded(results.non_commercial)
                THEN "NON-COMMERCIAL FISHERIES: SUCCESS"
                ELSE "NON-COMMERCIAL FISHERIES: FAILED",
                IF results.commercial.success /\ results.non_commercial.success
                THEN "PIPELINE STATUS: SUCCESS"
                ELSE "PIPELINE STATUS: PARTIAL SUCCESS OR FAILURE">>)
    /\ full_ret' = [value |-> results.commercial.success
                              /\ results.non_commercial.success]
    /\ UNCHANGED <<input_file, pc, remove_aggregates, remove_display, exc, ret,
                   results, combined, summary_file>>
    /\ UNCHANGED cleaner_vars

HasSummary(r) == "summary" \in DOMAIN r

\* min() and max() of two years
min(a, b) == IF a <= b THEN a ELSE b

max(a, b) == IF a >= b THEN a ELSE b

\* the larger year taken for min_year
Overall_max_for_min(c, n) ==
    [total_records |-> c.cleaned_row_count + n.cleaned_row_count,
     total_exchange_value |-> c.total_exchange_value + n.total_exchange_value,
     combined_date_range |->
        [min_year |-> max(c.date_range.min_year, n.date_range.min_year),
         max_year |-> max(c.date_range.max_year, n.date_range.max_year)]]

Overall(c, n) ==
    [total_records |-> c.cleaned_row_count + n.cleaned_row_count,
     total_exchange_value |-> c.total_exchange_value + n.total_exchange_value,
     combined_date_range |->
        [min_year |-> min(c.date_range.min_year, n.date_range.min_year),
         max_year |-> max(c.date_range.max_year, n.date_range.max_year)]]

\* results[k]['summary'] if results[k] else None
ChildSummary(r) == IF Truthy(r) THEN r.summary ELSE None

\* a call of generate_combined_summary by the owner of the orchestrator
GenerateCombinedSummary ==
    /\ opc \in {"idle", "returned"}
    /\ combined = None
    /\ Info("generate_combined_summary")
    /\ LET c == results.commercial
           n == results.non_commercial
       IN  IF \/ Truthy(c) /\ ~HasSummary(c)
              \/ Truthy(n) /\ ~HasSummary(n)
           THEN /\ exc' = KeyError("generate_combined_summary")
                /\ opc' = "raised"
                /\ UNCHANGED combined
           ELSE /\ combined' =
                     IF Truthy(c) /\ Truthy(n)
                     THEN [pipeline_timestamp |-> "now",
                           commercial |-> ChildSummary(c),
                           non_commercial |-> ChildSummary(n),
                           overall |-> Overall(c.summary, n.summary)]
                     ELSE [pipeline_timestamp |-> "now",
                           commercial |-> ChildSummary(c),
                           non_commercial |-> ChildSummary(n)]
                /\ UNCHANGED <<opc, exc>>
    /\ UNCHANGED <<input_file, pc, remove_aggregates, remove_display, ret,
                   results, summary_file, full_ret>>
    /\ UNCHANGED cleaner_vars

\* a call of export_summary_json with the combined summary
ExportSummaryJson ==
    /\ opc \in {"idle", "returned"}
    /\ combined # None
    /\ summary_file = None
    /\ summary_file' = combined
    /\ Info("export_summary_json")
    /\ UNCHANGED <<input_file, opc, pc, remove_aggregates, remove_display, exc,
                   ret, results, combined, full_ret>>
    /\ UNCHANGED cleaner_vars

Next ==
    \/ RunFullPipeline
    \/ LoadData
    \/ ValidateSchema
    \/ ValidateDataTypes
    \/ ValidateDataRanges
    \/ ValidateEcosystemTypes
    \/ ValidateSpeciesGroups
    \/ ValidateCounties
    \/ RemoveNullValues
    \/ RemoveAggregateRows
    \/ RemoveDisplayColumns
    \/ ExportCleanedData
    \/ GenerateSummaryStatistics
    \/ RunCommercialCleaning
    \/ RunNoncommercialCleaning
    \/ GeneratePipelineReport
    \/ GenerateCombinedSummary
    \/ ExportSummaryJson

Spec == Init /\ [][Next]_vars

TypeOK ==
    /\ opc \in {"idle", "commercial", "non_commercial", "report", "returned",
                "raised"}
    /\ pc \in {"init", "loaded", "schema_ok", "typed", "ranges_ok",
               "ecosystems_ok", "species_ok", "counties_ok", "nulls_removed",
               "aggregates_removed", "display_removed", "exported", "done",
               "aborted", "raised"}
    /\ raw_row_count \in Nat
    /\ cleaned_row_count \in Nat

(***************************************************************************)
(* Properties                                                              *)
(***************************************************************************)
Exported == output_file # None

IsAggregate(row) ==
    \/ row["species_group"] = Str("All Species")
    \/ row["ecosystem_type"] = Str("All Ecosystems")

\* the load succeeded and the loaded table has all six required columns
InputPassesSchema ==
    /\ input_file.kind = "DataFrame"
    /\ {"year", "area_id", "county", "species_group", "ecosystem_type",
        "exchange_value"} \subseteq Range(input_file.columns)

\* C1: the exported table holds no row with a null exchange_value, whatever
\* the input and the two flags, also for values that were text in the input
C1_NoNullExported ==
    Exported =>
        \A i \in 1..len(output_file) :
            /\ notna(output_file.rows[i]["exchange_value"])
            /\ output_file.rows[i]["exchange_value"].t = "num"

\* C1 witness: a table with a non-numeric exchange_value was exported with
\* a row left in it
C1_Witness ==
    /\ Exported
    /\ len(output_file) > 0
    /\ \E i \in 1..len(input_file) :
          input_file.rows[i]["exchange_value"].t = "str"

\* C2: with remove_aggregates the step keeps exactly the rows that carry
\* neither sentinel, in order, and the exported table has no sentinel row
C2_AggregatesRemoved ==
    /\ [](remove_aggregates /\ Exported =>
            \A i \in 1..len(output_file) : ~IsAggregate(output_file.rows[i]))
    /\ [][(pc = "nulls_removed" /\ pc' = "aggregates_removed"
           /\ remove_aggregates) =>
            data'.rows = Take(data.rows,
                              [i \in 1..len(data) |-> ~IsAggregate(data.rows[i])],
                              1)]_vars

\* C2 witness: the step dropped an aggregate row and kept another row
C2_Witness ==
    /\ pc = "aggregates_removed"
    /\ remove_aggregates
    /\ removed.aggregates > 0
    /\ len(data) > 0

\* the stages entered so far, in order
StageNames == {"load_data", "validate_schema", "validate_data_types",
               "validate_data_ranges", "validate_ecosystem_types",
               "validate_species_groups", "validate_counties",
               "remove_null_values", "remove_aggregate_rows",
               "remove_display_columns", "export_cleaned_data",
               "generate_summary_statistics"}

Stages == Take(log, [i \in 1..Len(log) |-> log[i] \in StageNames], 1)

\* C3: a run whose load fails or whose table lacks a required column returns
\* (False, None, None) at once: no later stage, no output file, and
\* cleaned_row_count still 0
C3_AbortsAtOnce ==
    /\ input_file.kind # "DataFrame" =>
          /\ pc \in {"init", "aborted"}
          /\ Stages \in {<<>>, <<"load_data">>}
    /\ ~InputPassesSchema =>
          /\ pc \in {"init", "loaded", "aborted"}
          /\ Stages \in {<<>>, <<"load_data">>, <<"load_data", "validate_schema">>}
          /\ output_file = None
          /\ cleaned_row_count = 0
          /\ ret \in {None, [success |-> FALSE, output_file |-> None,
                             summary |-> None]}
    /\ pc = "aborted" =>
          /\ ~InputPassesSchema
          /\ ret = [success |-> FALSE, output_file |-> None, summary |-> None]

\* C3 witness: the run was aborted by validate_schema for a missing
\* exchange_value column and the orchestrator went on
C3_Witness ==
    /\ pc = "aborted"
    /\ input_file.kind = "DataFrame"
    /\ len(input_file) > 0
    /\ "exchange_value" \notin Range(input_file.columns)
    /\ opc = "returned"

\* the order of the stages after schema validation
NextStage ==
    [p \in {"schema_ok", "typed", "ranges_ok", "ecosystems_ok", "species_ok",
            "counties_ok", "nulls_removed", "aggregates_removed",
            "display_removed", "exported"} |->
        CASE p = "schema_ok" -> "typed"
          [] p = "typed" -> "ranges_ok"
          [] p = "ranges_ok" -> "ecosystems_ok"
          [] p = "ecosystems_ok" -> "species_ok"
          [] p = "species_ok" -> "counties_ok"
          [] p = "counties_ok" -> "nulls_removed"
          [] p = "nulls_removed" -> "aggregates_removed"
          [] p = "aggregates_removed" -> "display_removed"
          [] p = "display_removed" -> "exported"
          [] p = "exported" -> "done"]

AllStages == <<"load_data", "validate_schema", "validate_data_types",
               "validate_data_ranges", "validate_ecosystem_types",
               "validate_species_groups", "validate_counties",
               "remove_null_values", "remove_aggregate_rows",
               "remove_display_columns", "export_cleaned_data",
               "generate_summary_statistics">>

\* C4: past schema validation every stage hands over to the next one and the
\* run ends in DONE with (True, output file, summary), also when the filters
\* remove every row; a run ends in no other way than DONE or ABORTED
C4_RunsToDone ==
    /\ [][(pc \in DOMAIN NextStage) => (pc' = NextStage[pc])]_vars
    /\ [](pc = "done" =>
            /\ Stages = AllStages
            /\ ret.success
            /\ ret.output_file # None
            /\ ret.summary # None)
    /\ [](pc = "aborted" => ~InputPassesSchema)
    /\ [](pc # "raised")

\* C5: called after both cleaners have run, generate_combined_summary
\* returns both child entries (null for a failed cleaner, the summary for a
\* successful one) and the overall block exactly when both succeeded
C5_CombinedSummaryReturned ==
    [][(opc = "returned" /\ log' = Append(log, "generate_combined_summary")) =>
        /\ combined' # None
        /\ exc' = exc
        /\ combined'.commercial =
             (IF results.commercial.success
              THEN results.commercial.summary ELSE None)
        /\ combined'.non_commercial =
             (IF results.non_commercial.success
              THEN results.non_commercial.summary ELSE None)
        /\ ("overall" \in DOMAIN combined') <=>
             (results.commercial.success /\ results.non_commercial.success)]_vars

\* C6: whatever the outcome of the commercial cleaner, it is recorded as a
\* structured result, no exception reaches the orchestrator, and the
\* non-commercial cleaner is run next
C6_NonCommercialAlwaysRun ==
    /\ [][(opc = "commercial" /\ pc \in {"done", "aborted", "raised"}) =>
            /\ opc' = "non_commercial"
            /\ results'.commercial # None
            /\ "success" \in DOMAIN results'.commercial]_vars
    /\ [](results.non_commercial # None => results.commercial # None)
    /\ [](opc = "raised" => exc.at = "generate_combined_summary")

\* C7: when run_full_pipeline returns it has merged the summaries and written
\* the summary file, in that order, during the run
C7_SummaryWrittenByRun ==
    [][(full_ret = None /\ full_ret' # None) =>
        /\ summary_file' # None
        /\ \E i, j, k \in 1..Len(log') :
              /\ i < j /\ j < k
              /\ log'[i] = "run_full_pipeline"
              /\ log'[j] = "generate_combined_summary"
              /\ log'[k] = "export_summary_json"]_vars

\* rows of the input whose exchange_value is null once coerced
NullRowsOf(df) ==
    {i \in 1..len(df) : df.rows[i]["exchange_value"].t # "num"}

\* rows of the input that survive null removal and carry a sentinel
AggregateRowsOf(df) ==
    {i \in 1..len(df) : i \notin NullRowsOf(df) /\ IsAggregate(df.rows[i])}

\* C8: for a successful run, raw_row_count - cleaned_row_count is the number
\* of rows dropped for nulls plus the number dropped as aggregates, and is the
\* summary's rows_removed; 10 rows with 2 nulls and remove_aggregates=false
\* give 8 rows and rows_removed = 2
C8_Accounting ==
    /\ (ret # None /\ ret.success) =>
          /\ raw_row_count = len(input_file)
          /\ cleaned_row_count = len(output_file)
          /\ removed.nulls = Cardinality(NullRowsOf(input_file))
          /\ removed.aggregates =
               (IF remove_aggregates
                THEN Cardinality(AggregateRowsOf(input_file)) ELSE 0)
          /\ raw_row_count - cleaned_row_count
               = removed.nulls + removed.aggregates
          /\ ret.summary.rows_removed = raw_row_count - cleaned_row_count
          /\ ret.summary.raw_row_count = raw_row_count
          /\ ret.summary.cleaned_row_count = cleaned_row_count
    /\ (pc = "done" /\ input_file = Scenario10 /\ ~remove_aggregates) =>
          /\ len(output_file) = 8
          /\ ret.summary.cleaned_row_count = 8
          /\ ret.summary.rows_removed = 2

\* C8 witness: the 10-row scenario ran to the end without aggregate removal
C8_Witness ==
    /\ pc = "done"
    /\ input_file = Scenario10
    /\ ~remove_aggregates
    /\ raw_row_count = 10
    /\ removed.nulls = 2

\* what validate_data_types is to make of a table: in year and area_id an
\* integer stays, in exchange_value a number stays, anything else in these
\* three columns is null, and the other columns are as they were
CoercedCell(col, c) ==
    CASE col \in {"year", "area_id"} ->
            IF c.t = "num" /\ c.n % 10 = 0 THEN Int64(c.n \div 10) ELSE NaN
      [] col = "exchange_value" -> IF c.t = "num" THEN c ELSE NaN
      [] OTHER -> c

CoercedTable(df) ==
    [df EXCEPT !.rows = [i \in 1..len(df) |->
                            [col \in DOMAIN df.rows[i] |->
                                CoercedCell(col, df.rows[i][col])]]]

\* C9: validate_data_types never raises: what cannot be converted becomes
\* null, the rest is unchanged, and the run goes on to the next stage
C9_TypesNeverRaise ==
    [][pc = "schema_ok" =>
        /\ pc' = "typed"
        /\ exc' = None
        /\ data' = CoercedTable(data)]_vars

\* the input as validate_data_types leaves it
TypedInput == coerce_exchange_value(coerce_area_id(coerce_year(input_file)))

\* C10: the range and category validators leave the table alone and hand
\* over to the next stage, so that every typed row with a non-null
\* exchange_value that aggregate removal does not take is exported as it is
C10_ValidatorsAdvisory ==
    /\ [][(pc \in {"typed", "ranges_ok", "ecosystems_ok", "species_ok"}) =>
            /\ pc' = NextStage[pc]
            /\ data' = data
            /\ exc' = exc]_vars
    /\ [](Exported =>
            \A i \in 1..len(TypedInput) :
                LET r == TypedInput.rows[i]
                IN  (notna(r["exchange_value"])
                     /\ ~(remove_aggregates /\ IsAggregate(r)))
                    => \E j \in 1..len(output_file) :
                          output_file.rows[j] = Project(r, output_file.columns))

\* C10 witness: the row of year 1996 and value 500 was exported after the
\* warnings about years, negative values and unexpected counties
C10_Witness ==
    /\ Exported
    /\ {"WARNING years outside expected range",
        "WARNING negative exchange values",
        "WARNING unexpected county names"} \subseteq Range(log)
    /\ \E j \in 1..len(output_file) :
          /\ output_file.rows[j]["year"] = Int64(1996)
          /\ output_file.rows[j]["exchange_value"] = Num(5000)
          /\ output_file.rows[j]["species_group"] = Str("Pelagics")
    /\ \E j \in 1..len(output_file) : output_file.rows[j]["exchange_value"].n < 0

BothSucceeded ==
    /\ results.commercial # None
    /\ results.non_commercial # None
    /\ results.commercial.success
    /\ results.non_commercial.success

\* C11: run_full_pipeline returns true exactly when both cleaners succeeded,
\* and in every other outcome it returns false and raises nothing
C11_OverallSuccess ==
    /\ full_ret # None => (full_ret.value <=> BothSucceeded)
    /\ opc = "raised" => exc.at = "generate_combined_summary"

\* C12: a call of generate_combined_summary yields the overall block only
\* when both cleaners succeeded, and then total_records and
\* total_exchange_value are the sums of the two summaries' entries, min_year
\* the smaller min_year and max_year the larger max_year (100.0 and 50.0
\* give 150.0); with a failed cleaner no total_records is produced
C12_OverallBlock ==
    [][log' = Append(log, "generate_combined_summary") =>
        IF BothSucceeded
        THEN LET c == results.commercial.summary
                 n == results.non_commercial.summary
                 o == combined'.overall
             IN  /\ combined' # None
                 /\ "overall" \in DOMAIN combined'
                 /\ o.total_records = c.cleaned_row_count + n.cleaned_row_count
                 /\ o.total_exchange_value =
                      c.total_exchange_value + n.total_exchange_value
                 /\ (c.total_exchange_value = 1000 /\ n.total_exchange_value = 500)
                      => o.total_exchange_value = 1500
                 /\ o.combined_date_range.min_year <= c.date_range.min_year
                 /\ o.combined_date_range.min_year <= n.date_range.min_year
                 /\ o.combined_date_range.min_year
                      \in {c.date_range.min_year, n.date_range.min_year}
                 /\ o.combined_date_range.max_year >= c.date_range.max_year
                 /\ o.combined_date_range.max_year >= n.date_range.max_year
                 /\ o.combined_date_range.max_year
                      \in {c.date_range.max_year, n.date_range.max_year}
        ELSE combined' = None \/ "overall" \notin DOMAIN combined']_vars

\* C12 witness: totals of 100.0 and 50.0 were merged into 150.0, and the
\* commercial min_year was not the smaller one
C12_Witness ==
    /\ combined # None
    /\ "overall" \in DOMAIN combined
    /\ combined.commercial.total_exchange_value = 1000
    /\ combined.non_commercial.total_exchange_value = 500
    /\ combined.overall.total_exchange_value = 1500
    /\ combined.overall.combined_date_range.min_year
         < combined.commercial.date_range.min_year

\* C13: with remove_aggregates false, remove_aggregate_rows leaves the table
\* as it was (same rows, same order, same columns), aggregate rows included
C13_AggregatesKept ==
    [][(pc = "nulls_removed" /\ pc' = "aggregates_removed"
        /\ ~remove_aggregates) =>
        /\ data' = data
        /\ len(data') = len(data)]_vars

\* C13 witness: the step was skipped on a table holding both kinds of
\* aggregate rows
C13_Witness ==
    /\ pc = "aggregates_removed"
    /\ ~remove_aggregates
    /\ \E i \in 1..len(data) :
          data.rows[i]["species_group"] = Str("All Species")
    /\ \E i \in 1..len(data) :
          data.rows[i]["ecosystem_type"] = Str("All Ecosystems")

\* C14: remove_display_columns never changes the rows: with remove_display
\* the columns are the previous ones less county_olelo and
\* exchange_value_formatted where present, in the same order, and every row
\* keeps its other cells; without it the table is unchanged; the exported
\* columns are the input's less the dropped display columns
C14_DisplayColumns ==
    /\ [][(pc = "aggregates_removed" /\ pc' # pc) =>
            /\ pc' = "display_removed"
            /\ exc' = exc
            /\ IF remove_display
               THEN /\ data'.columns =
                         Take(data.columns,
                              [i \in 1..Len(data.columns) |->
                                  data.columns[i] \notin
                                    {"county_olelo", "exchange_value_formatted"}],
                              1)
                    /\ len(data') = len(data)
                    /\ \A i \in 1..len(data) :
                          data'.rows[i] = Project(data.rows[i], data'.columns)
               ELSE data' = data]_vars
    /\ [](Exported =>
            Range(output_file.columns) =
              Range(input_file.columns) \
                (IF remove_display
                 THEN {"county_olelo", "exchange_value_formatted"} ELSE {}))

\* C14 witness: display columns were asked to be removed from a table that
\* holds only one of them, and the rows were exported
C14_Witness ==
    /\ Exported
    /\ remove_display
    /\ len(output_file) > 0
    /\ "county_olelo" \in Range(input_file.columns)
    /\ "exchange_value_formatted" \notin Range(input_file.columns)
    /\ "county_olelo" \notin Range(output_file.columns)

\* a cell as type coercion leaves it, whether or not it was coerced yet
CanonicalCell(col, c) ==
    CASE col \in {"year", "area_id"} ->
            IF c.t = "num" /\ c.n % 10 = 0 THEN Int64(c.n \div 10)
            ELSE IF c.t = "str" THEN NaN ELSE c
      [] col = "exchange_value" -> IF c.t = "str" THEN NaN ELSE c
      [] OTHER -> c

CanonicalRows(rows, cols) ==
    [i \in 1..Len(rows) |->
        [col \in Range(cols) |-> CanonicalCell(col, rows[i][col])]]

RECURSIVE IsSubSeq(_, _)
IsSubSeq(a, b) ==
    IF a = <<>> THEN TRUE
    ELSE IF b = <<>> THEN FALSE
    ELSE IF Head(a) = Head(b) THEN IsSubSeq(Tail(a), Tail(b))
    ELSE IsSubSeq(a, Tail(b))

\* C15: after load_data the rows of the table are always a sub-sequence, in
\* order, of the loaded rows (up to type coercion and dropped columns), the
\* row count never grows, cleaned_row_count <= raw_row_count, rows_removed is
\* never negative, and raw_row_count is what load_data set
C15_RowsOnlyRemoved ==
    /\ [](data # None =>
            /\ IsSubSeq(CanonicalRows(data.rows, data.columns),
                        CanonicalRows(input_file.rows, data.columns))
            /\ len(data) <= raw_row_count
            /\ raw_row_count = len(input_file))
    /\ [](cleaned_row_count <= raw_row_count)
    /\ []((ret # None /\ ret.success) => ret.summary.rows_removed >= 0)
    /\ [][data # None =>
            /\ len(data') <= len(data)
            /\ raw_row_count' = raw_row_count]_vars

\* C15 witness: a run ended with fewer rows than loaded and at least two
\* different rows left
C15_Witness ==
    /\ pc = "done"
    /\ len(data) >= 2
    /\ len(data) < raw_row_count
    /\ \E i, j \in 1..len(data) : i < j /\ data.rows[i] # data.rows[j]
    /\ ret.summary.rows_removed > 0

====
